---- MODULE Spec2Model ----
(***************************************************************************)
(* The agent control loops of project-ralphie.                             *)
(*                                                                         *)
(* The repository holds several generations of the same program.  Each is  *)
(* a `main` that asks a model backend for the next action, carries it out  *)
(* and asks whether the task is complete.  The generations modelled here:  *)
(*                                                                         *)
(*   "basic"    src/index.js              generate / execute / check       *)
(*   "mcp"      src/unnamed/part_000      + summarizer, + tool calls       *)
(*   "toolerr"  src/unnamed/part_002:249  router, tool calls only, the     *)
(*                                        errors of a turn are collected   *)
(*   "done"     src/unnamed/part_003:1    router, tool calls only, DONE    *)
(*   "router"   src/unnamed/part_003:350  router, summarizer, tool calls,  *)
(*                                        generated segment is executed    *)
(*                                                                         *)
(* A text is a sequence of symbols.  A symbol is one character, except     *)
(* that a keyword the code tests for ("PROJECT_DONE", "yes", "Error", ...) *)
(* and a fixed fragment of a prompt template are one symbol each, so that  *)
(* includes/startsWith/trim/slice/length are computed as the code computes *)
(* them, at the granularity of symbols.                                    *)
(***************************************************************************)
EXTENDS Integers, Sequences, FiniteSets, TLC

----------------------------------------------------------------------------
\* Bounds of the model.

\* outer iterations carried out during one run of the process; the run is
\* followed up to the head of the next one
MaxIter == 2
\* lines read at the interactive prompt during one run
MaxTasks == 2
\* backend responses, during one run, that neither ended their turn nor
\* requested a tool
MaxRounds == 1
\* tool calls requested during one run (and by one response)
MaxCalls == 2
\* tool providers configured on the command line
MaxServers == 2
\* characters of the file a built-in tool works on, and of its arguments
MaxFileLen == 2

----------------------------------------------------------------------------
\* JavaScript values.

\* a number, or NaN
Num(v) == [nan |-> FALSE, val |-> v]
NaN == [nan |-> TRUE, val |-> 0]

\* null / undefined where the code expects a string
Null == <<"\\0">>

WS == " "

Min(a, b) == IF a < b THEN a ELSE b
Max(a, b) == IF a > b THEN a ELSE b

\* a value used as a condition:  '' , null and undefined are falsy
Truthy(s) == s # <<>> /\ s # Null

\* a || b
OrElse(a, b) == IF Truthy(a) THEN a ELSE b

\* `${s}` inside a template literal
Str(s) == IF s = Null THEN <<"null">> ELSE s

RECURSIVE TrimStart(_)
TrimStart(s) ==
  IF s # <<>> /\ Head(s) = WS THEN TrimStart(Tail(s)) ELSE s

RECURSIVE TrimEnd(_)
TrimEnd(s) ==
  IF s # <<>> /\ s[Len(s)] = WS THEN TrimEnd(SubSeq(s, 1, Len(s) - 1)) ELSE s

\* String.prototype.trim
Trim(s) == TrimEnd(TrimStart(s))

\* String.prototype.includes, for a keyword w
Includes(s, w) == \E i \in 1..Len(s) : s[i] = w

\* String.prototype.startsWith, for a keyword w
StartsWith(s, w) == s # <<>> /\ Head(s) = w

LowerSym(c) ==
  CASE c = "YES" -> "yes"
    [] c = "ACTION" -> "action"
    [] c = "DONE" -> "done"
    [] OTHER -> c

UpperSym(c) ==
  CASE c = "yes" -> "YES"
    [] c = "action" -> "ACTION"
    [] c = "done" -> "DONE"
    [] OTHER -> c

\* String.prototype.toLowerCase / toUpperCase
ToLowerCase(s) == [i \in 1..Len(s) |-> LowerSym(s[i])]
ToUpperCase(s) == [i \in 1..Len(s) |-> UpperSym(s[i])]

\* String.prototype.slice(start) with one argument: NaN counts as 0, a
\* negative start counts from the end, the result runs to the end.
Slice(s, start) ==
  LET n == Len(s)
      from == IF start.nan THEN 0
              ELSE IF start.val < 0 THEN Max(n + start.val, 0)
              ELSE Min(start.val, n)
  IN SubSeq(s, from + 1, n)

\* unary minus
Neg(x) == IF x.nan THEN NaN ELSE Num(0 - x.val)

\* Math.round(x / d) for an integer x and d > 0: halves round up
RoundDiv(x, d) == (2 * x + d) \div (2 * d)

\* Array.prototype.join('\n') of a list of texts
RECURSIVE Join(_)
Join(list) ==
  IF list = <<>> THEN <<>>
  ELSE IF Len(list) = 1 THEN list[1]
  ELSE list[1] \o <<"\n">> \o Join(Tail(list))

\* t ends with s
IsSuffix(s, t) ==
  Len(s) <= Len(t) /\ SubSeq(t, Len(t) - Len(s) + 1, Len(t)) = s

----------------------------------------------------------------------------
\* Command line.

DefaultContextLength == 42000
SummaryFanOut == 6
SliceFanOut == 2

FlagContextLength == <<"--context-length">>

DigitVal(c) ==
  CASE c = "0" -> 0 [] c = "1" -> 1 [] c = "2" -> 2 [] c = "3" -> 3
    [] c = "4" -> 4 [] c = "5" -> 5 [] c = "6" -> 6 [] c = "7" -> 7
    [] c = "8" -> 8 [] c = "9" -> 9 [] OTHER -> -1

RECURSIVE ParseDigits(_, _, _)
ParseDigits(s, acc, seen) ==
  IF s # <<>> /\ DigitVal(Head(s)) >= 0
  THEN ParseDigits(Tail(s), 10 * acc + DigitVal(Head(s)), TRUE)
  ELSE [seen |-> seen, acc |-> acc]

\* parseInt(s, 10): leading white space, an optional sign, then the longest
\* run of digits; NaN when there is no digit (or s is undefined)
ParseInt(s) ==
  LET t == TrimStart(s)
      signed == t # <<>> /\ Head(t) \in {"-", "+"}
      r == ParseDigits(IF signed THEN Tail(t) ELSE t, 0, FALSE)
  IN IF s = Null \/ ~r.seen THEN NaN
     ELSE IF signed /\ Head(t) = "-" THEN Num(0 - r.acc) ELSE Num(r.acc)

\* parseOptions: the flag and its value are spliced out of args wherever
\* they stand; what is left are the positional arguments
RECURSIVE parseOptions(_, _, _)
parseOptions(args, i, contextLength_) ==
  IF i > Len(args) THEN [args |-> args, contextLength |-> contextLength_]
  ELSE IF args[i] = FlagContextLength
  THEN parseOptions(SubSeq(args, 1, i - 1) \o SubSeq(args, i + 2, Len(args)), i,
                    ParseInt(IF i + 1 <= Len(args) THEN args[i + 1] ELSE Null))
  ELSE parseOptions(args, i + 1, contextLength_)

\* const sliceLen = Math.round((Number(contextLength) / 6) / 2)
SliceLen(contextLength_) ==
  IF contextLength_.nan THEN NaN
  ELSE Num(RoundDiv(contextLength_.val, SummaryFanOut * SliceFanOut))

\* progressLog.slice(-sliceLen), errorLog.slice(-sliceLen)
Tail_(log, contextLength_) == Slice(log, Neg(SliceLen(contextLength_)))

----------------------------------------------------------------------------
\* Startup of the tool providers, and the built-in file tools.

\* String.prototype.includes, for a text w
IncludesText(s, w) ==
  \E i \in 0..(Len(s) - Len(w)) : SubSeq(s, i + 1, i + Len(w)) = w

\* split(sep).join() with the argument of join forgotten: the occurrences are
\* removed and nothing is put in their place
RECURSIVE SplitDrop(_, _, _)
SplitDrop(s, sep, by) ==
  IF sep = <<>> \/ Len(s) < Len(sep) THEN s
  ELSE IF SubSeq(s, 1, Len(sep)) = sep
  THEN SplitDrop(SubSeq(s, Len(sep) + 1, Len(s)), sep, by)
  ELSE <<Head(s)>> \o SplitDrop(Tail(s), sep, by)

\* s.split(sep).join(by): every occurrence of sep, found from the left and
\* not overlapping, becomes by; an empty sep splits between any two
\* characters
RECURSIVE SplitJoin(_, _, _)
SplitJoin(s, sep, by) ==
  IF sep = <<>>
  THEN IF Len(s) <= 1 THEN s
       ELSE <<Head(s)>> \o by \o SplitJoin(Tail(s), sep, by)
  ELSE IF Len(s) < Len(sep) THEN s
  ELSE IF SubSeq(s, 1, Len(sep)) = sep
  THEN by \o SplitJoin(SubSeq(s, Len(sep) + 1, Len(s)), sep, by)
  ELSE <<Head(s)>> \o SplitJoin(Tail(s), sep, by)

\* the names of nativeToolDefinitions, in order
nativeToolDefinitions ==
  <<"read_file", "write_file", "search_and_replace", "run_terminal_command">>

\* a configured provider: whether client.connect and client.listTools
\* succeed, and the tools it then lists
Server(path, connect, list, toolNames) ==
  [path |-> path, connect |-> connect, list |-> list, toolNames |-> toolNames]

\* one try block around the whole loop: the first failure ends the setup
RECURSIVE setupUntilFailure(_, _)
setupUntilFailure(serverPaths, acc) ==
  IF serverPaths = <<>> THEN acc
  ELSE LET srv == Head(serverPaths) IN
    IF srv.connect /\ srv.list
    THEN setupUntilFailure(Tail(serverPaths),
           [acc EXCEPT !.tools = @ \o srv.toolNames,
                       !.clients = Append(@, [server |-> srv.path,
                                              toolNames |-> srv.toolNames]),
                       !.connected = @ \cup {srv.path}])
    ELSE [acc EXCEPT !.logged = Append(@, srv.path),
                     !.connected = IF srv.connect THEN @ \cup {srv.path}
                                   ELSE @]

setupMCPOneTry(serverPaths) ==
  setupUntilFailure(serverPaths,
    [tools |-> nativeToolDefinitions, clients |-> <<>>, logged |-> <<>>,
     connected |-> {}])

\* the loop of setupMCP: each provider in its own try block
RECURSIVE setupLoop(_, _)
setupLoop(serverPaths, acc) ==
  IF serverPaths = <<>> THEN acc
  ELSE LET srv == Head(serverPaths) IN
    setupLoop(Tail(serverPaths),
      IF srv.connect /\ srv.list
      THEN [acc EXCEPT !.tools = @ \o srv.toolNames,
                       !.clients = Append(@, [server |-> srv.path,
                                              toolNames |-> srv.toolNames]),
                       !.connected = @ \cup {srv.path}]
      ELSE [acc EXCEPT !.logged = Append(@, srv.path),
                       !.connected = IF srv.connect THEN @ \cup {srv.path}
                                     ELSE @])

\* setupMCP: the catalogue, the clients, the failures written to stderr, and
\* the providers whose client.connect succeeded
setupMCP(serverPaths) ==
  setupLoop(serverPaths,
    [tools |-> nativeToolDefinitions, clients |-> <<>>, logged |-> <<>>,
     connected |-> {}])

\* the value returned by a built-in tool, the file after the call, and
\* whether writeFileSync was called
ToolOutcome(result, data, wrote) ==
  [result |-> result, data |-> data, wrote |-> wrote]

\* the write_file branch: fs.writeFileSync(fullPath, args.text || ...), for a
\* text that is not empty; args.append is not read
writeFile(name, args, data) ==
  ToolOutcome(<<"Successfully wrote to ", args.path>>, args.text, TRUE)

\* search_and_replace without the test for the search string
ReplaceUnchecked(name, args, data) ==
  IF name = "write_file" THEN writeFile(name, args, data)
  ELSE IF data = Null
  THEN ToolOutcome(<<"Error executing ", name, ": ", "ENOENT">>, data, FALSE)
  ELSE ToolOutcome(<<"Successfully replaced text in ", args.path>>,
                   SplitJoin(data, args.search, args.replace), TRUE)

\* handleNativeTool for search_and_replace / find_and_replace and for
\* write_file; data is the content of the file at args.path, Null if there is
\* no such file
handleNativeTool(name, args, data) ==
  IF name = "write_file" THEN writeFile(name, args, data)
  ELSE IF data = Null
  THEN ToolOutcome(<<"Error executing ", name, ": ", "ENOENT">>, data, FALSE)
  ELSE IF ~IncludesText(data, args.search)
  THEN ToolOutcome(<<"Error: String \"">> \o args.search \o <<"\" not found.">>,
                   data, FALSE)
  ELSE ToolOutcome(<<"Successfully replaced text in ", args.path>>,
                   SplitJoin(data, args.search, args.replace), TRUE)

----------------------------------------------------------------------------
\* State.

VARIABLES
  variant,              \* which generation of the program runs
  contextLength,        \* parseOptions().contextLength
  isReplMode,           \* !initialInput
  pc,                   \* the await (or synchronous call) main is suspended at
  exitCode,             \* process exit code once pc = "exited", else -1
  currentTask,
  progressLog,
  errorLog,
  projectStateSummary,
  messages,             \* message list of the generation turn
  checkMessages,        \* message list of the completion check
  pending,              \* tool calls of the last response not yet dispatched
  toolErrors,           \* error-shaped tool results of this turn ("toolerr")
  iterationLog,         \* transcript of this turn ("toolerr")
  segment,              \* final content of the generation turn
  rounds,               \* responses so far without tool call or end of turn
  callCount,            \* tool calls requested so far
  outstanding,          \* operations issued and not yet completed
  lastReq,              \* the last request sent to the backend
  lastResp,             \* the last response received from the backend
  iters,                \* outer iterations begun so far
  tasks,                \* lines read at the prompt so far
  lastExec,             \* verdict of the last executeSegment for this task
  outcome,              \* how the last finished outer iteration was classified
  exitCause,            \* how the task loop was last left
  sumCalls,             \* summarizer requests issued in this outer iteration
  sumReturned,          \* this iteration's summarizer response was stored
  genCalls,             \* generation requests issued in this outer iteration
  openClients,          \* providers whose connection is open
  tempFile,             \* the temporary file of executeSegment exists
  hung,                 \* the child of executeSegment will never exit
  mcpServers,           \* parseOptions().mcpServers, with what each will do
  mcp,                  \* what setupMCP returned
  file,                 \* content of the file the built-in tools work on
  toolCall              \* the last call of handleNativeTool

cfgVars == <<variant, contextLength, isReplMode>>
logVars == <<progressLog, errorLog, projectStateSummary>>
turnVars == <<messages, checkMessages, pending, toolErrors, iterationLog,
              segment>>
histVars == <<lastExec, outcome, exitCause, sumCalls, sumReturned, genCalls>>
resourceVars == <<openClients, tempFile, hung>>
toolVars == <<mcpServers, mcp, file, toolCall>>
vars == <<variant, contextLength, isReplMode, pc, exitCode, currentTask,
          progressLog, errorLog, projectStateSummary, messages, checkMessages,
          pending, toolErrors, iterationLog, segment, rounds, callCount,
          outstanding, lastReq, lastResp, iters, tasks, lastExec, outcome, exitCause,
          sumCalls, sumReturned, genCalls, openClients, tempFile, hung,
          mcpServers, mcp, file, toolCall>>

Variants == {"basic", "mcp", "toolerr", "done", "router"}

\* with the first generation that dispatches tool calls, "calls"
Generations == Variants \cup {"calls"}

HasRouter(v) == v \in {"calls", "toolerr", "done", "router"}
ExecutesSegment(v) == v \in {"basic", "mcp", "router"}

\* the command lines the model starts from
TaskArg == <<"task">>
CommandLines ==
  { <<FlagContextLength, <<"5">>>>,
    <<FlagContextLength, <<"6">>, TaskArg>>,
    <<TaskArg, FlagContextLength, <<"x">>>> }

\* args.join(' '), for at most one positional argument
InitialInput(args) == IF args = <<>> THEN <<>> ELSE args[1]

NoMessage == [kind |-> "none", prompt |-> <<>>, hist |-> <<>>, err |-> <<>>]
NoResponse == [kind |-> "none", content |-> <<>>, calls |-> <<>>]
Idle == [backend |-> 0, tool |-> 0, child |-> 0]

\* the operation is issued and not awaited
Forget(o, k) == o

\* an operation is issued / the await on it returns
Issue(o, k) == [o EXCEPT ![k] = @ + 1]
Complete(o, k) == [o EXCEPT ![k] = @ - 1]

\* clients, as setupMCP left them
Clients == << [toolNames |-> { "provider_tool" }] >>

\* setupMCP has not returned yet
NoSetup == [tools |-> <<>>, clients |-> <<>>, logged |-> <<>>,
            connected |-> {}]

\* handleNativeTool has not been called
NoCall == [name |-> "", path |-> "", search |-> <<>>, replace |-> <<>>,
           text |-> <<>>, append |-> FALSE,
           before |-> Null, origin |-> Null, result |-> <<>>, wrote |-> FALSE,
           handlers |-> {}]

\* the provider configured in the runs of the loop
ConfiguredServers == << Server("server1", TRUE, TRUE, <<"provider_tool">>) >>

\* main up to its loop, but for the position it is at
ProgramInit ==
  /\ variant \in Generations
  /\ \E argv \in CommandLines :
       LET opts == parseOptions(argv, 1, Num(DefaultContextLength)) IN
         /\ contextLength = opts.contextLength
         /\ isReplMode = (HasRouter(variant) /\ ~Truthy(InitialInput(opts.args)))
         /\ currentTask = InitialInput(opts.args)
         /\ (variant = "basic" => opts.args # <<>>)
  /\ exitCode = -1
  /\ progressLog = <<>>
  /\ errorLog = <<>>
  /\ projectStateSummary =
       IF variant = "mcp" THEN <<"Project initialized. No progress yet.">>
       ELSE IF variant = "basic" THEN <<>> ELSE <<"No active task.">>
  /\ messages = <<>>
  /\ checkMessages = <<>>
  /\ pending = <<>>
  /\ toolErrors = <<>>
  /\ iterationLog = <<>>
  /\ segment = <<>>
  /\ rounds = 0
  /\ callCount = 0
  /\ outstanding = Idle
  /\ lastReq = NoMessage
  /\ lastResp = NoResponse
  /\ iters = 0
  /\ tasks = 0
  /\ lastExec = "none"
  /\ outcome = "none"
  /\ exitCause = "none"
  /\ sumCalls = 0
  /\ sumReturned = FALSE
  /\ genCalls = 0
  /\ tempFile = FALSE
  /\ hung = FALSE

Init ==
  /\ ProgramInit
  /\ variant \in Variants
  /\ pc = (IF HasRouter(variant) THEN "prompt" ELSE "start")
  /\ mcpServers = (IF variant = "basic" THEN <<>> ELSE ConfiguredServers)
  /\ mcp = setupMCP(mcpServers)
  /\ openClients = mcp.connected
  /\ file = Null
  /\ toolCall = NoCall

----------------------------------------------------------------------------
\* The state as one value, and the step to a value computed from it.

Self ==
  [variant |-> variant, contextLength |-> contextLength,
   isReplMode |-> isReplMode, pc |-> pc, exitCode |-> exitCode,
   currentTask |-> currentTask, progressLog |-> progressLog,
   errorLog |-> errorLog, projectStateSummary |-> projectStateSummary,
   messages |-> messages, checkMessages |-> checkMessages,
   pending |-> pending, toolErrors |-> toolErrors,
   iterationLog |-> iterationLog, segment |-> segment, rounds |-> rounds,
   callCount |-> callCount,
   outstanding |-> outstanding, lastReq |-> lastReq, lastResp |-> lastResp,
   iters |-> iters, tasks |-> tasks, lastExec |-> lastExec,
   outcome |-> outcome, exitCause |-> exitCause, sumCalls |-> sumCalls,
   sumReturned |-> sumReturned, genCalls |-> genCalls,
   openClients |-> openClients, tempFile |-> tempFile, hung |-> hung]

\* the step is taken only within the bounds of the model: the run is followed
\* up to the head of iteration MaxIter + 1
Become(n) ==
  /\ iters <= MaxIter
  /\ n.tasks <= MaxTasks
  /\ n.rounds <= MaxRounds
  /\ n.callCount <= MaxCalls
  /\ variant' = n.variant
  /\ contextLength' = n.contextLength
  /\ isReplMode' = n.isReplMode
  /\ pc' = n.pc
  /\ exitCode' = n.exitCode
  /\ currentTask' = n.currentTask
  /\ progressLog' = n.progressLog
  /\ errorLog' = n.errorLog
  /\ projectStateSummary' = n.projectStateSummary
  /\ messages' = n.messages
  /\ checkMessages' = n.checkMessages
  /\ pending' = n.pending
  /\ toolErrors' = n.toolErrors
  /\ iterationLog' = n.iterationLog
  /\ segment' = n.segment
  /\ rounds' = n.rounds
  /\ callCount' = n.callCount
  /\ outstanding' = n.outstanding
  /\ lastReq' = n.lastReq
  /\ lastResp' = n.lastResp
  /\ iters' = n.iters
  /\ tasks' = n.tasks
  /\ lastExec' = n.lastExec
  /\ outcome' = n.outcome
  /\ exitCause' = n.exitCause
  /\ sumCalls' = n.sumCalls
  /\ sumReturned' = n.sumReturned
  /\ genCalls' = n.genCalls
  /\ openClients' = n.openClients
  /\ tempFile' = n.tempFile
  /\ hung' = n.hung
  /\ UNCHANGED toolVars

----------------------------------------------------------------------------
\* Prompts and messages.

\* a message that does not say which call it answers
MsgUnnamed(role, content, name, calls) ==
  [role |-> role, content |-> content, name |-> "", calls |-> calls]

Msg(role, content, name, calls) ==
  [role |-> role, content |-> content, name |-> name, calls |-> calls]

Request(kind, prompt, hist, err) ==
  [kind |-> kind, prompt |-> prompt, hist |-> hist, err |-> err]

\* the summarizer's user prompt
SummarizePrompt(s) ==
  IF s.variant = "mcp"
  THEN <<"Current detailed history:\n">>
         \o Tail_(s.progressLog, s.contextLength)
         \o <<"\n\nCurrent error logs:\n">>
         \o Tail_(s.errorLog, s.contextLength)
         \o <<"\n\nCurrent Project State Summary:\n">>
         \o s.projectStateSummary \o <<"\n\nUpdate and shorten.">>
  ELSE <<"History: ">> \o Tail_(s.progressLog, s.contextLength)
         \o <<"\nErrors: ">> \o Tail_(s.errorLog, s.contextLength)
         \o <<"\nSummary: ">> \o s.projectStateSummary
         \o <<"\nUpdate summary.">>

\* the generation turn's user prompt
FullPrompt(s) ==
  IF s.variant = "basic"
  THEN s.currentTask \o <<"\n\nProgress Log: ">>
         \o s.progressLog \o <<"\n\nError Log (if any): ">> \o Str(s.errorLog)
         \o <<"Generate the next code segment or command.">>
  ELSE IF s.variant = "mcp"
  THEN <<"Main Task: ">> \o s.currentTask \o <<"\n\nProgress Summary: ">>
         \o s.projectStateSummary \o <<"\n\n">>
         \o (IF Truthy(s.errorLog)
             THEN <<"LAST ERROR: ">> \o s.errorLog \o <<"\nFix this error.">>
             ELSE <<"Generate the next code segment or command.">>)
  ELSE <<"Task: ">> \o s.currentTask \o <<"\nSummary: ">>
         \o s.projectStateSummary \o <<"\n">>
         \o (IF Truthy(s.errorLog) THEN <<"FIX ERROR: ">> \o s.errorLog
             ELSE IF s.variant = "router"
             THEN <<"Generate next Node.js segment.">>
             ELSE <<"Continue with next actions.">>)

\* the completion check's user prompt
CheckPrompt(s) ==
  IF ~HasRouter(s.variant)
  THEN s.currentTask \o <<"\n\nProgress Log: ">> \o s.progressLog
         \o <<"\n\nLast segment executed successfully.">>
  ELSE <<"Task: ">> \o s.currentTask \o <<"\nLog: ">> \o s.progressLog
         \o <<"\nDone?">>

\* the entry is dropped: a success appends nothing
NoEntry(s, log) == <<>>

\* the entry a successful iteration appends to progressLog
Entry(s, log) ==
  IF s.variant = "toolerr" THEN <<"\nStep: ">> \o s.iterationLog
  ELSE IF ~HasRouter(s.variant)
  THEN <<"\nSuccessful segment: ">> \o s.segment \o <<"\nOutput: ">> \o log
  ELSE <<"\nCode: ">> \o s.segment \o <<"\nOutput: ">> \o log

----------------------------------------------------------------------------
\* Leaving the task code.

\* the variables declared in the body of the task loop go out of scope
EndScope(s) ==
  [s EXCEPT !.messages = <<>>, !.checkMessages = <<>>, !.pending = <<>>,
            !.toolErrors = <<>>, !.iterationLog = <<>>, !.segment = <<>>]

\* an exception leaves the awaited operation k: "done" catches it inside the
\* task loop and goes round again; the others let it reach main().catch
Throw(s, k) ==
  LET t == [EndScope(s) EXCEPT
              !.outstanding = IF k = "none" THEN @ ELSE Complete(@, k),
              !.exitCause = "throw"]
  IN IF s.variant = "done" THEN [t EXCEPT !.pc = "prompt"]
     ELSE [t EXCEPT !.pc = "exited",
                    !.exitCode = IF s.variant \in {"calls", "toolerr", "router"}
                                 THEN 1 ELSE 0]

\* break out of the task loop
LeaveTask(s, cause) ==
  LET t == [EndScope(s) EXCEPT !.exitCause = cause]
  IN IF ~HasRouter(s.variant) THEN [t EXCEPT !.pc = "exited", !.exitCode = 0]
     ELSE IF s.isReplMode THEN [t EXCEPT !.pc = "prompt"]
     ELSE [t EXCEPT !.pc = "closing"]

----------------------------------------------------------------------------
\* Top of the outer loop.

\* the summarizer consulted only when there is an error to digest
SummarizeOnError(s) == s.variant # "basic" /\ Truthy(s.errorLog)

\* the loop body starts with the summarizer call
SummarizeFirst(s) == s.variant # "basic"

IssueGenerate(s) ==
  [s EXCEPT !.pc = "generate",
            !.outstanding = Issue(@, "backend"),
            !.genCalls = @ + 1,
            !.lastReq = Request("generate", FullPrompt(s),
                          IF s.variant = "basic" THEN s.progressLog ELSE <<>>,
                          IF s.variant = "basic" THEN Str(s.errorLog)
                          ELSE IF Truthy(s.errorLog) THEN s.errorLog ELSE <<>>)]

StartTurn(s) ==
  IssueGenerate([s EXCEPT
    !.messages = <<Msg("system", <<"systemPromptGenerate">>, "", <<>>),
                   Msg("user", FullPrompt(s), "", <<>>)>>,
    !.iterationLog = <<>>, !.toolErrors = <<>>, !.segment = <<>>,
    !.pending = <<>>])

BeginIteration(s) ==
  LET t == [EndScope(s) EXCEPT !.iters = @ + 1, !.sumCalls = 0,
                               !.sumReturned = FALSE, !.genCalls = 0]
  IN IF ~SummarizeFirst(t) THEN StartTurn(t)
     ELSE IF t.errorLog = Null THEN Throw(t, "none")
     ELSE [t EXCEPT !.pc = "summarize",
                    !.outstanding = Issue(@, "backend"),
                    !.sumCalls = @ + 1,
                    !.lastReq = Request("summarize", SummarizePrompt(t),
                                  Tail_(t.progressLog, t.contextLength),
                                  Tail_(t.errorLog, t.contextLength))]

----------------------------------------------------------------------------
\* What the outside world can answer.

\* a line typed at the prompt
ReplInputs == { <<"exit">>, <<>>, <<"task">> }

RouterContents == { <<"ACTION">>, <<"CHAT">>, <<"action">> }

SummaryContents == { <<"s">>, <<WS, "s", "s", "s", WS>> }

\* tool names the backend may ask for: a built-in one, one advertised by the
\* connected provider, one that nobody advertises
CallNames ==
  { "read_file", "run_terminal_command", "provider_tool", "unknown_tool" }

\* the calls of one response: one call of any tool, a call the program cannot
\* route followed by one it can, or as many file reads as the budget allows
CallSeqs ==
  { <<n>> : n \in CallNames }
    \cup { <<"unknown_tool", "read_file">> }
    \cup { [i \in 1..MaxCalls |-> "read_file"] }

\* content of a response that ends the generation turn
FinalContents(v) ==
  IF v = "done" THEN { <<"DONE">>, <<"done", ":", "x">> }
  ELSE { <<"code">>, <<WS, "PROJECT_DONE">>, <<"code", "PROJECT_DONE">> }

\* content of a response that does not end it
OtherContents(v) ==
  IF v = "done" THEN { <<"thinking">> }
  ELSE IF v = "toolerr" THEN { <<>> }
  ELSE { <<>>, <<"PROJECT_DONE">> }

Response(kind, content, calls) ==
  [kind |-> kind, content |-> content, calls |-> calls]

GenResponses(v) ==
  { Response("generate", c, <<>>) : c \in FinalContents(v) \cup
                                     (IF v = "done" THEN OtherContents(v) ELSE {}) }
    \cup (IF v = "basic" THEN {}
          ELSE { Response("generate", c, cs) :
                   c \in OtherContents(v) \cup
                           (IF v = "done" THEN { <<"DONE">> } ELSE {}),
                   cs \in CallSeqs })

CheckContents == { <<"no">>, <<"YES">>, <<"yes", ".">> }

CheckResponses(v) ==
  { Response("check", c, <<>>) : c \in CheckContents }
    \cup (IF v = "toolerr"
          THEN { Response("check", <<>>, cs) : cs \in CallSeqs } ELSE {})

\* how the child process of executeSegment ends
Outcome(kind, stdout, stderr) ==
  [kind |-> kind, stdout |-> stdout, stderr |-> stderr]

ExecOutcomes(v) ==
  { Outcome("exit0", <<"out">>, <<>>), Outcome("exit0", <<>>, <<>>),
    Outcome("exit1", <<>>, <<"not found">>), Outcome("exit1", <<>>, <<>>),
    Outcome("spawnerr", Null, Null) }
    \cup (IF v = "router" THEN { Outcome("timeout", <<>>, <<>>) } ELSE {})

\* run_terminal_command: result.stdout || result.stderr || the fixed text
RunTerminalCommand(o) ==
  OrElse(OrElse(o.stdout, o.stderr), <<"Command executed (no output).">>)

\* what a built-in tool returns: for a command (here `false`: status 1, no
\* output) the text above, for a file tool content or the text of the catch
NativeResults(name) ==
  IF name = "run_terminal_command"
  THEN { RunTerminalCommand(Outcome("exit1", <<>>, <<>>)) }
  ELSE { <<"r">>, <<"Error", "r">> }

\* res.content of a provider: a list of chunks, each given by its text
ProviderContents == { << <<"r">> >>, <<>> }

----------------------------------------------------------------------------
\* Tools.

NATIVE_TOOL_NAMES(v) ==
  IF v = "mcp" THEN { "read_file", "run_terminal_command" }
  ELSE { "read_file", "write_file", "search_and_replace",
         "run_terminal_command" }

\* shutdownMCP: client.close() for every recorded client
shutdownMCP(clients, open) ==
  open \ { clients[i].server : i \in 1..Len(clients) }

\* clients.find(c => c.toolNames.includes(name)): its index, 0 if none
FindClient(name) ==
  IF \E i \in 1..Len(Clients) : name \in Clients[i].toolNames
  THEN CHOOSE i \in 1..Len(Clients) :
         /\ name \in Clients[i].toolNames
         /\ \A j \in 1..(i - 1) : name \notin Clients[j].toolNames
  ELSE 0

RECURSIVE ChunkTexts(_)
ChunkTexts(content) ==
  IF content = <<>> THEN <<>>
  ELSE <<OrElse(Head(content), <<"{chunk}">>)>> \o ChunkTexts(Tail(content))

\* the provider's content flattened to text
Flatten(v, content) ==
  IF v = "mcp" THEN <<"[">> \o Join(content) \o <<"]">>
  ELSE Join(ChunkTexts(content))

\* toolResult left as declared when no handler took the call
UnhandledLeftUnset(v) == Null

\* toolResult when no handler took the call
UnhandledResult(v) ==
  IF v = "toolerr" THEN <<"Tool not found">>
  ELSE IF v = "done" THEN <<"Tool error">>
  ELSE Null

\* content of the tool message
ToolMessageContent(v, r) ==
  IF v \in {"calls", "toolerr", "router"} THEN OrElse(r, <<"Tool error">>)
  ELSE r

\* only the startsWith test is made
StartsWithError(r) == StartsWith(r, "Error")

\* the test that collects a result into toolErrors
IsToolError(r) ==
  \/ StartsWith(r, "Error")
  \/ r = <<"Tool error">>
  \/ r = <<"Tool not found">>

----------------------------------------------------------------------------
\* executeSegment and the classification of its verdict.

executeSegment(v, o) ==
  IF v = "router" /\ o.kind = "timeout"
  THEN [error |-> TRUE, log |-> <<"Execution timed out (60s limit).">>]
  ELSE IF v = "basic" /\ o.kind = "exit0"
  THEN [error |-> FALSE, log |-> o.stdout]
  ELSE [error |-> o.kind # "exit0", log |-> OrElse(o.stderr, o.stdout)]

\* spawnSync is given the timeout option
HasTimeout(v) == v = "router"

\* how fs.unlinkSync(tempFile) can fail: the file cannot be removed (EPERM,
\* the file stays), or, where existsSync is not asked first, it is already
\* gone (ENOENT)
UnlinkErrors(v) == IF v = "basic" THEN {"EPERM", "ENOENT"} ELSE {"EPERM"}

\* the error branch removed: every execution counts as a success
ExecNeverFailed(s, res) == FALSE

\* the condition of the error branch
ExecFailed(s, res) ==
  \/ res.error
  \/ /\ s.variant = "mcp"
     /\ \/ Includes(s.errorLog, "not found")
        \/ Includes(s.errorLog, "Command failed")

\* the sentinel test on the final content of the generation turn
HasSentinel(v, seg) ==
  IF v = "basic" THEN seg = <<"PROJECT_DONE">>
  ELSE IF v = "toolerr" THEN FALSE
  ELSE Includes(seg, "PROJECT_DONE")

\* the test removed: every answer of the completion check counts as a yes
AnyAnswer(v, content) == TRUE

\* the test on the completion check's answer
SaysYes(v, content) ==
  IF v = "basic" THEN ToLowerCase(Trim(content)) = <<"yes">>
  ELSE Includes(ToLowerCase(content), "yes")

\* routeResponse.message.content.includes("ACTION")
IsAction(content) == Includes(content, "ACTION")

----------------------------------------------------------------------------
\* The handlers: the code that runs from one await to the next.

IssueCheck(s) ==
  [s EXCEPT !.pc = "check",
            !.outstanding = Issue(@, "backend"),
            !.lastReq = Request("check", CheckPrompt(s), s.progressLog, <<>>)]

StartCheck(s) ==
  IssueCheck([s EXCEPT
    !.checkMessages = <<Msg("system", <<"systemPromptCheck">>, "", <<>>),
                        Msg("user", CheckPrompt(s), "", <<>>)>>,
    !.pending = <<>>])

IssueRoute(s) ==
  [s EXCEPT !.pc = "route",
            !.outstanding = Issue(@, "backend"),
            !.lastReq = Request("route", s.currentTask, <<>>, <<>>)]

\* rl.question resolved with a line
OnLine(s, line) ==
  LET t == [s EXCEPT !.tasks = @ + 1, !.currentTask = line]
  IN IF ToLowerCase(line) \in { <<"exit">>, <<"quit">> }
     THEN [t EXCEPT !.pc = "closing"]
     ELSE IF Trim(line) = <<>> THEN t
     ELSE IssueRoute(t)

\* the router answered
OnRoute(s, resp) ==
  LET t == [s EXCEPT !.outstanding = Complete(@, "backend"), !.lastResp = resp]
  IN IF ~IsAction(resp.content)
     THEN [t EXCEPT !.pc = "chat",
                    !.outstanding = Issue(@, "backend"),
                    !.lastReq = Request("chat", s.currentTask, <<>>, <<>>)]
     ELSE BeginIteration(
            [t EXCEPT !.errorLog = <<>>,
                      !.progressLog = IF s.variant = "toolerr" THEN <<>> ELSE @,
                      !.projectStateSummary =
                         IF s.variant = "toolerr" THEN <<"No active task.">>
                         ELSE @,
                      !.lastExec = "none", !.outcome = "none",
                      !.exitCause = "none"])

\* the chat reply taken as the start of work on the task
ChatEntersLoop(s, resp) ==
  BeginIteration([s EXCEPT !.outstanding = Complete(@, "backend"),
                           !.lastResp = resp])

\* the chat reply arrived
OnChat(s, resp) ==
  LET t == [s EXCEPT !.outstanding = Complete(@, "backend"), !.lastResp = resp]
  IN IF ~s.isReplMode THEN [t EXCEPT !.pc = "closing"]
     ELSE [t EXCEPT !.pc = "prompt"]

\* the summarizer answered
OnSummary(s, resp) ==
  StartTurn([s EXCEPT !.outstanding = Complete(@, "backend"),
                      !.lastResp = resp,
                      !.projectStateSummary = Trim(resp.content),
                      !.sumReturned = TRUE])

\* toolResult can be read after the generation turn: in "calls" it is declared
\* by a let in the body of the dispatch loop and by nothing else, so that
\* reading it later throws a ReferenceError
ToolResultInScope(v) == v # "calls"

\* the generation turn ended with `final` ("toolerr": classify, then check);
\* the message list of the turn is not read again
OnFinalContent(s, final) ==
  LET t == [s EXCEPT !.segment = Trim(final), !.messages = <<>>]
  IN IF s.variant = "toolerr"
     THEN IF t.toolErrors # <<>>
          THEN BeginIteration([t EXCEPT !.errorLog = Join(t.toolErrors),
                                        !.outcome = "failure"])
          ELSE StartCheck([t EXCEPT !.progressLog = @ \o Entry(t, <<>>),
                                    !.errorLog = <<>>,
                                    !.outcome = "success"])
     ELSE IF HasSentinel(s.variant, t.segment) THEN LeaveTask(t, "sentinel")
     ELSE IF ~ToolResultInScope(s.variant) THEN Throw(t, "none")
     ELSE [t EXCEPT !.pc = "execute", !.outstanding = Issue(@, "child"),
                    !.tempFile = TRUE]

\* the backend answered the generation request
OnGenerate(s, resp) ==
  LET t == [s EXCEPT !.outstanding = Complete(@, "backend"),
                     !.lastResp = resp,
                     !.iterationLog =
                        IF s.variant = "toolerr"
                        THEN @ \o <<"\nAssistant: ">> \o resp.content ELSE @]
      calling ==
        [t EXCEPT !.messages =
                     Append(@, Msg("assistant", resp.content, "", resp.calls)),
                  !.iterationLog =
                     IF s.variant = "toolerr"
                     THEN @ \o <<"\nTool calls: ">> \o resp.calls ELSE @,
                  !.pending = resp.calls,
                  !.callCount = @ + Len(resp.calls),
                  !.pc = "dispatch"]
  IN IF s.variant = "done"
     THEN IF Truthy(resp.content) /\ Includes(ToUpperCase(resp.content), "DONE")
          THEN LeaveTask(t, "sentinel")
          ELSE IF resp.calls = <<>>
          THEN IssueGenerate(
                 [t EXCEPT !.messages =
                              Append(@, Msg("assistant", resp.content, "", <<>>)),
                           !.rounds = @ + 1])
          ELSE calling
     ELSE IF resp.calls # <<>> THEN calling
     ELSE OnFinalContent(t, resp.content)

\* a tool result is also written to progressLog
OnToolResultLogged(s, r, inCheck) ==
  LET name == Head(s.pending)
      m == Msg("tool", ToolMessageContent(s.variant, r), name, <<>>)
      u == [s EXCEPT !.progressLog = @ \o <<"\nTool result: ">> \o Str(r)]
      t == IF inCheck
           THEN [u EXCEPT !.checkMessages = Append(@, m), !.pending = Tail(@)]
           ELSE [u EXCEPT !.messages = Append(@, m), !.pending = Tail(@)]
  IN IF t.pending # <<>>
     THEN [t EXCEPT !.pc = IF inCheck THEN "checkDispatch" ELSE "dispatch"]
     ELSE IF inCheck THEN IssueCheck(t) ELSE IssueGenerate(t)

\* a tool call produced toolResult r: push the tool message, go on with the
\* next call, and after the last one ask the backend again
OnToolResult(s, r, inCheck) ==
  LET name == Head(s.pending)
      m == Msg("tool", ToolMessageContent(s.variant, r), name, <<>>)
      t == IF inCheck
           THEN [s EXCEPT !.checkMessages = Append(@, m), !.pending = Tail(@)]
           ELSE [s EXCEPT !.messages = Append(@, m),
                          !.pending = Tail(@),
                          !.toolErrors =
                             IF s.variant = "toolerr" /\ IsToolError(r)
                             THEN Append(@, r) ELSE @,
                          !.iterationLog =
                             IF s.variant = "toolerr"
                             THEN @ \o <<"\nTool result for ", name, ": ">> \o r
                             ELSE @]
  IN IF t.pending # <<>>
     THEN [t EXCEPT !.pc = IF inCheck THEN "checkDispatch" ELSE "dispatch"]
     ELSE IF inCheck THEN IssueCheck(t) ELSE IssueGenerate(t)

\* the child process of executeSegment ended
OnExec(s, o) ==
  LET res == executeSegment(s.variant, o)
      t == [s EXCEPT !.outstanding = Complete(@, "child"),
                     !.tempFile = FALSE,
                     !.lastExec = IF res.error THEN "fail" ELSE "ok"]
  IN IF ExecFailed(s, res)
     THEN BeginIteration([t EXCEPT !.errorLog = res.log, !.outcome = "failure"])
     ELSE StartCheck([t EXCEPT !.progressLog = @ \o Entry(t, res.log),
                               !.errorLog = IF s.variant = "basic" THEN @
                                            ELSE <<>>,
                               !.outcome = "success"])

\* the backend answered the completion check
OnCheck(s, resp) ==
  LET t == [s EXCEPT !.outstanding = Complete(@, "backend"), !.lastResp = resp]
  IN IF s.variant = "toolerr"
     THEN IF resp.calls # <<>>
          THEN [t EXCEPT !.checkMessages =
                            Append(@, Msg("assistant", resp.content, "",
                                          resp.calls)),
                         !.pending = resp.calls,
                         !.callCount = @ + Len(resp.calls),
                         !.pc = "checkDispatch"]
          ELSE Throw(t, "none")
     ELSE IF SaysYes(s.variant, resp.content) THEN LeaveTask(t, "check")
     ELSE BeginIteration([t EXCEPT !.errorLog = IF s.variant = "basic"
                                                 THEN <<>> ELSE @])

----------------------------------------------------------------------------
\* Actions.

InCheck == pc \in {"checkDispatch", "checkTool"}

\* main of "basic" and "mcp" enters its loop
Start ==
  /\ pc = "start"
  /\ Become(BeginIteration(Self))

\* single-shot mode: the task is the initial input
TakeTask ==
  /\ pc = "prompt"
  /\ ~isReplMode
  /\ Become(IssueRoute(Self))

\* interactive mode: a line is read
ReadLine ==
  /\ pc = "prompt"
  /\ isReplMode
  /\ \E line \in ReplInputs : Become(OnLine(Self, line))

RouteReturn ==
  /\ pc = "route"
  /\ \E c \in RouterContents : Become(OnRoute(Self, Response("route", c, <<>>)))

ChatReturn ==
  /\ pc = "chat"
  /\ Become(OnChat(Self, Response("chat", <<"hello">>, <<>>)))

SummaryReturn ==
  /\ pc = "summarize"
  /\ \E c \in SummaryContents :
       Become(OnSummary(Self, Response("summarize", c, <<>>)))

GenerateReturn ==
  /\ pc = "generate"
  /\ \E resp \in GenResponses(variant) : Become(OnGenerate(Self, resp))

\* the next tool call is a built-in tool: handled synchronously
DispatchNative ==
  /\ pc \in {"dispatch", "checkDispatch"}
  /\ Head(pending) \in NATIVE_TOOL_NAMES(variant)
  /\ \E r \in NativeResults(Head(pending)) :
       Become(OnToolResult(Self, r, InCheck))

\* the call came without arguments: handleNativeTool reads args.path before
\* its try block
NativeThrows ==
  /\ pc \in {"dispatch", "checkDispatch"}
  /\ Head(pending) \in NATIVE_TOOL_NAMES(variant)
  /\ Become(Throw(Self, "none"))

\* the next tool call goes to the provider that advertised it
DispatchProvider ==
  /\ pc \in {"dispatch", "checkDispatch"}
  /\ Head(pending) \notin NATIVE_TOOL_NAMES(variant)
  /\ FindClient(Head(pending)) # 0
  /\ Become([Self EXCEPT !.pc = IF InCheck THEN "checkTool" ELSE "tool",
                         !.outstanding = Issue(@, "tool")])

\* the next tool call has no handler
DispatchUnhandled ==
  /\ pc \in {"dispatch", "checkDispatch"}
  /\ Head(pending) \notin NATIVE_TOOL_NAMES(variant)
  /\ FindClient(Head(pending)) = 0
  /\ Become(OnToolResult(Self, UnhandledResult(variant), InCheck))

ToolReturn ==
  /\ pc \in {"tool", "checkTool"}
  /\ \E content \in ProviderContents :
       Become(OnToolResult(
                [Self EXCEPT !.outstanding = Complete(@, "tool")],
                Flatten(variant, content), InCheck))

ExecReturn ==
  /\ pc = "execute"
  /\ ~hung
  /\ \E o \in ExecOutcomes(variant) : Become(OnExec(Self, o))

CheckReturn ==
  /\ pc = "check"
  /\ \E resp \in CheckResponses(variant) : Become(OnCheck(Self, resp))

\* the awaited backend call rejects
BackendThrows ==
  /\ pc \in {"route", "chat", "summarize", "generate", "check"}
  /\ Become(Throw(Self, "backend"))

\* the awaited callTool rejects
ToolThrows ==
  /\ pc \in {"tool", "checkTool"}
  /\ Become(Throw(Self, "tool"))

\* spawnSync has no timeout option and the child never exits: main stays
\* blocked in executeSegment
ChildNeverExits ==
  /\ pc = "execute"
  /\ ~hung
  /\ ~HasTimeout(variant)
  /\ Become([Self EXCEPT !.hung = TRUE])

\* the child ended and unlinkSync throws: the exception leaves executeSegment
SegmentThrows ==
  /\ pc = "execute"
  /\ ~hung
  /\ \E e \in UnlinkErrors(variant) :
       Become([Throw(Self, "child") EXCEPT !.tempFile = (e # "ENOENT")])

\* rl.close(); await shutdownMCP(clients)
Shutdown ==
  /\ pc = "closing"
  /\ Become([Self EXCEPT !.pc = "exited", !.exitCode = 0,
                         !.openClients = shutdownMCP(mcp.clients, @)])

Next ==
  \/ Start
  \/ TakeTask
  \/ ReadLine
  \/ RouteReturn
  \/ ChatReturn
  \/ SummaryReturn
  \/ GenerateReturn
  \/ DispatchNative
  \/ NativeThrows
  \/ DispatchProvider
  \/ DispatchUnhandled
  \/ ToolReturn
  \/ ExecReturn
  \/ ChildNeverExits
  \/ SegmentThrows
  \/ CheckReturn
  \/ BackendThrows
  \/ ToolThrows
  \/ Shutdown

Spec == Init /\ [][Next]_vars

----------------------------------------------------------------------------
\* The built-in file tools on their own: the router generation at its prompt,
\* with any file at the path the tools are called with.

Alphabet == {"a", "b"}

\* the texts of at most n characters
Texts(n) == UNION { [1..k -> Alphabet] : k \in 0..n }

ToolInit ==
  /\ ProgramInit
  /\ variant = "router" /\ isReplMode
  /\ pc = "prompt"
  /\ mcpServers = ConfiguredServers
  /\ mcp = setupMCP(mcpServers)
  /\ openClients = mcp.connected
  /\ file \in {Null} \cup Texts(MaxFileLen)
  /\ toolCall = NoCall

\* the variables a call of handleNativeTool leaves alone
loopVars ==
  <<variant, contextLength, isReplMode, pc, exitCode, currentTask, logVars,
    turnVars, histVars, rounds, callCount, outstanding, lastReq, lastResp,
    iters, tasks, resourceVars, mcpServers, mcp>>

\* the file and the record of the call after handleNativeTool(name, args)
Called(name, args) ==
  LET out == handleNativeTool(name, args, file)
  IN [file |-> out.data,
      toolCall |-> [name |-> name, path |-> args.path,
                    search |-> args.search, replace |-> args.replace,
                    text |-> args.text, append |-> args.append,
                    before |-> file, origin |-> toolCall.before,
                    result |-> out.result, wrote |-> out.wrote,
                    handlers |-> {"native"}]]

\* handleNativeTool('search_and_replace', { path, search, replace })
CallSearchAndReplace ==
  /\ \E search \in Texts(MaxFileLen), replace \in Texts(1) \cup {<<"a", "b">>} :
       LET after == Called("search_and_replace",
                           [path |-> "f", search |-> search,
                            replace |-> replace, text |-> <<>>,
                            append |-> FALSE])
       IN /\ after.file = Null \/ Len(after.file) <= MaxFileLen
          /\ file' = after.file
          /\ toolCall' = after.toolCall
  /\ UNCHANGED loopVars

\* handleNativeTool('write_file', { path, text, append })
CallWriteFile ==
  /\ \E text \in Texts(1) \ {<<>>}, append \in BOOLEAN :
       LET after == Called("write_file",
                           [path |-> "f", search |-> <<>>, replace |-> <<>>,
                            text |-> text, append |-> append])
       IN /\ file' = after.file
          /\ toolCall' = after.toolCall
  /\ UNCHANGED loopVars

ToolNext ==
  \/ CallSearchAndReplace
  \/ CallWriteFile

ToolSpec == ToolInit /\ [][ToolNext]_vars

----------------------------------------------------------------------------
\* Startup, dispatch by name and shutdown on their own: the router generation
\* from the call of setupMCP on, with any configured providers.

\* the i-th configured provider with each way its startup can go
ServersAt(i) ==
  { Server("server" \o ToString(i), FALSE, FALSE, <<>>),
    Server("server" \o ToString(i), TRUE, FALSE, <<>>),
    Server("server" \o ToString(i), TRUE, TRUE, <<"tool" \o ToString(i)>>),
    Server("server" \o ToString(i), TRUE, TRUE, <<"read_file", "shared_tool">>) }

ServerLists ==
  UNION { { l \in [1..k -> UNION { ServersAt(i) : i \in 1..k }] :
              \A i \in 1..k : l[i] \in ServersAt(i) } : k \in 0..MaxServers }

\* the names a tool call can carry
DispatchNames ==
  {"read_file", "shared_tool", "unknown_tool"}
    \cup { "tool" \o ToString(i) : i \in 1..MaxServers }

\* the first client, in the order of clients, that advertised the name
FirstClient(clients, name) ==
  CHOOSE i \in 1..Len(clients) :
    /\ \E k \in 1..Len(clients[i].toolNames) : clients[i].toolNames[k] = name
    /\ \A j \in 1..(i - 1) :
         \A k \in 1..Len(clients[j].toolNames) : clients[j].toolNames[k] # name

\* the providers are asked before the built-in names are looked at
HandlersProviderFirst(v, clients, name) ==
  IF \E i \in 1..Len(clients) :
       \E k \in 1..Len(clients[i].toolNames) : clients[i].toolNames[k] = name
  THEN { clients[FirstClient(clients, name)].server }
  ELSE IF name \in NATIVE_TOOL_NAMES(v) THEN {"native"} ELSE {}

\* who handles a tool call: handleNativeTool for a name of NATIVE_TOOL_NAMES,
\* else clients.find(c => c.toolNames.includes(name)), else nobody
Handlers(v, clients, name) ==
  IF name \in NATIVE_TOOL_NAMES(v) THEN {"native"}
  ELSE IF \E i \in 1..Len(clients) :
            \E k \in 1..Len(clients[i].toolNames) :
              clients[i].toolNames[k] = name
  THEN { clients[FirstClient(clients, name)].server }
  ELSE {}

ProviderInit ==
  /\ ProgramInit
  /\ variant \in {"toolerr", "router"} /\ isReplMode
  /\ pc = "setup"
  /\ mcpServers \in ServerLists
  /\ mcp = NoSetup
  /\ openClients = {}
  /\ file = Null
  /\ toolCall = NoCall

\* const { tools, clients } = await setupMCP(mcpServers)
Setup ==
  /\ pc = "setup"
  /\ mcp' = setupMCP(mcpServers)
  /\ openClients' = mcp'.connected
  /\ pc' = "prompt"
  /\ UNCHANGED <<variant, contextLength, isReplMode, exitCode, currentTask,
                 logVars, turnVars, histVars, rounds, callCount, outstanding,
                 lastReq, lastResp, iters, tasks, tempFile, hung,
                 mcpServers, file, toolCall>>

\* a tool call of a response is dispatched by its name
DispatchByName ==
  /\ pc = "prompt"
  /\ \E name \in DispatchNames :
       toolCall' = [NoCall EXCEPT !.name = name,
                                  !.handlers = Handlers(variant, mcp.clients,
                                                        name)]
  /\ UNCHANGED <<loopVars, file>>

ProviderNext ==
  \/ Setup
  \/ DispatchByName
  \/ ReadLine
  \/ Shutdown

ProviderSpec == ProviderInit /\ [][ProviderNext]_vars

----------------------------------------------------------------------------
\* Properties.

TaskLoopPcs ==
  {"summarize", "generate", "dispatch", "tool", "execute", "check",
   "checkDispatch", "checkTool"}

\* the head of an outer iteration
AtLoopTop == pc = "summarize" \/ (variant = "basic" /\ pc = "generate")

\* the task loop was left by one of its break statements
LoopExited == exitCause \in {"sentinel", "check"}

\* C1: at the top of every outer iteration after the first, and at loop exit,
\* errorLog is non-empty if and only if the most recent execution of a
\* generated segment failed (src/index.js and the router generation).
C1_ErrorLogIffLastExecutionFailed ==
  (variant \in {"basic", "router"} /\ lastExec # "none"
     /\ (AtLoopTop \/ LoopExited))
    => (errorLog # <<>> <=> lastExec = "fail")

\* a failing child that printed nothing is followed by an iteration whose
\* errorLog is empty
C1_SilentFailureReached ==
  variant = "router" /\ pc = "summarize" /\ lastExec = "fail"
    /\ outcome = "failure" /\ errorLog = <<>>

EntryMarks == {"\nCode: ", "\nSuccessful segment: ", "\nStep: "}

IsPrefix(p, t) == Len(p) <= Len(t) /\ SubSeq(t, 1, Len(p)) = p

\* t is s followed by exactly one entry
OneEntryAppended(s, t) ==
  /\ IsPrefix(s, t)
  /\ Len(t) > Len(s)
  /\ t[Len(s) + 1] \in EntryMarks
  /\ \A i \in (Len(s) + 2)..Len(t) : t[i] \notin EntryMarks

\* C2: while a task is worked on, progressLog changes only in the step that
\* classifies the iteration as a success (the segment ran without error, or no
\* tool result was error-shaped), and then by exactly one entry appended at
\* its end; an iteration classified as a failure leaves it as it was.
C2_ProgressLogGrowsOnlyOnSuccess ==
  [][ (pc \in TaskLoopPcs /\ progressLog' # progressLog)
        => /\ pc \in {"execute", "generate"}
           /\ pc' = "check"
           /\ outcome' = "success"
           /\ (ExecutesSegment(variant) => lastExec' = "ok")
           /\ (variant = "toolerr" => toolErrors = <<>>)
           /\ OneEntryAppended(progressLog, progressLog') ]_vars

\* a failed iteration came after a successful one, and progressLog still holds
\* the one entry of the successful one
C2_FailureAfterSuccess ==
  /\ variant \in {"router", "toolerr"}
  /\ AtLoopTop /\ iters = 3 /\ outcome = "failure"
  /\ progressLog # <<>>
  /\ OneEntryAppended(<<>>, progressLog)

\* the step leaves the loop that works on the task
LeavesTaskLoop == pc \in TaskLoopPcs /\ pc' \notin TaskLoopPcs

\* ... because the content of the generation response holds the sentinel
BySentinel ==
  /\ pc = "generate"
  /\ lastResp'.kind = "generate"
  /\ IF variant = "done"
     THEN Includes(ToUpperCase(lastResp'.content), "DONE")
     ELSE lastResp'.calls = <<>> /\ Includes(lastResp'.content, "PROJECT_DONE")

\* ... because the completion check after a success answered yes
ByCheckYes ==
  /\ pc = "check"
  /\ outcome = "success"
  /\ lastResp'.kind = "check"
  /\ Includes(ToLowerCase(lastResp'.content), "yes")

\* ... because an exception left the loop body
ByException == exitCause' = "throw"

C4_NoExitWithPendingError ==
  (variant \in {"router", "done"} /\ LoopExited) => ~Truthy(errorLog)

\* the sentinel ended the task in the iteration that was to fix an error
C4_SentinelWithPendingError ==
  variant = "router" /\ exitCause = "sentinel" /\ lastExec = "fail"
    /\ errorLog = <<"not found">>

\* C5: in the loop that collects tool errors, an iteration without tool error
\* whose completion check answers 'no' is followed by a new outer iteration,
\* starting with a summarizer call; the loop is not left and the process goes on.
C5_NoAnswerStartsNextIteration ==
  [][ (/\ variant = "toolerr"
       /\ pc = "check"
       /\ lastResp' # lastResp
       /\ lastResp'.kind = "check"
       /\ lastResp'.calls = <<>>
       /\ ~Includes(ToLowerCase(lastResp'.content), "yes"))
        => (pc' = "summarize" /\ iters' = iters + 1 /\ exitCode' = -1) ]_vars

\* the process ended with exit code 1 on a 'no' answer
C5_ExitOnNoAnswer ==
  variant = "toolerr" /\ pc = "exited" /\ exitCode = 1
    /\ lastResp = Response("check", <<"no">>, <<>>) /\ outcome = "success"

\* C6: in every outer iteration of the generations that summarize, exactly one
\* summarizer call is made, it returns and its trimmed answer replaces
\* projectStateSummary, and only then is the first generation request of the
\* iteration issued.
C6_OneSummaryBeforeGeneration ==
  (variant # "basic" /\ pc \in TaskLoopPcs)
    => /\ sumCalls = 1
       /\ (pc = "summarize" <=> ~sumReturned)
       /\ (genCalls > 0 => sumReturned)
       /\ (pc = "summarize" => genCalls = 0 /\ lastReq.kind = "summarize")
       /\ (pc = "generate" /\ genCalls = 1
             => /\ lastResp.kind = "summarize"
                /\ projectStateSummary = Trim(lastResp.content)
                /\ lastReq.kind = "generate")

\* the first generation request of an iteration that follows a failed one is
\* out, after that iteration's own summarizer call
C6_GenerationAfterSummary ==
  /\ variant = "router" /\ pc = "generate" /\ genCalls = 1 /\ iters = 2
  /\ outcome = "failure" /\ sumCalls = 1 /\ sumReturned
  /\ projectStateSummary = <<"s", "s", "s">>

\* the length the summarizer is asked to stay under: round(contextLength / 6)
SummaryBound(contextLength_) == RoundDiv(contextLength_.val, SummaryFanOut)

\* C7: after every summarizer call the length of projectStateSummary is
\* within the configured bound, whatever the backend answered.
C7_SummaryWithinBound ==
  (variant \in {"router", "mcp"} /\ sumReturned /\ ~contextLength.nan)
    => Len(projectStateSummary) <= SummaryBound(contextLength)

\* the answer of the summarizer was stored at three times the bound
C7_LongSummaryStored ==
  /\ variant = "router" /\ sumReturned /\ contextLength = Num(6)
  /\ Len(projectStateSummary) = 3

\* C8: the log text carried by a request of the task loop (summarizer,
\* generation or completion-check prompt) stays within the configured context
\* length, however many iterations have completed.
C8_RequestWithinContextLength ==
  (variant = "router" /\ ~contextLength.nan
     /\ lastReq.kind \in {"summarize", "generate", "check"})
    => Len(lastReq.hist) + Len(lastReq.err) <= contextLength.val

\* the completion check was sent with a log longer than the context length
C8_CheckCarriesWholeLog ==
  /\ variant = "router" /\ pc = "check" /\ contextLength = Num(6)
  /\ lastReq.hist = progressLog /\ Len(progressLog) > 6

\* C9: for a numeric context length, the progress-log text and the error-log
\* text of the summarizer prompt are each at most
\* sliceLen = round(contextLength / 6 / 2) long, and a log longer than sliceLen
\* is not embedded whole.
C9_SlicesAtMostSliceLen ==
  (variant \in {"router", "mcp"} /\ pc = "summarize" /\ ~contextLength.nan)
    => LET sliceLen == SliceLen(contextLength).val IN
         /\ Len(lastReq.hist) <= sliceLen
         /\ Len(lastReq.err) <= sliceLen
         /\ (Len(progressLog) > sliceLen => lastReq.hist # progressLog)

\* with a context length of 5 the summarizer prompt carries the whole log
C9_WholeLogEmbedded ==
  /\ variant = "router" /\ pc = "summarize" /\ contextLength = Num(5)
  /\ progressLog # <<>> /\ lastReq.hist = progressLog

\* the awaited operation of each position of the loop
Awaited(p) ==
  IF p \in {"route", "chat", "summarize", "generate", "check"}
  THEN [Idle EXCEPT !.backend = 1]
  ELSE IF p \in {"tool", "checkTool"} THEN [Idle EXCEPT !.tool = 1]
  ELSE IF p = "execute" THEN [Idle EXCEPT !.child = 1]
  ELSE Idle

\* C10: the loop is strictly sequential: at most one backend request, one
\* tool invocation or one child process is outstanding at any moment, namely
\* the one the loop is waiting for; nothing is issued before it has completed.
C10_StrictlySequential ==
  /\ outstanding.backend + outstanding.tool + outstanding.child <= 1
  /\ outstanding = Awaited(pc)

\* a provider's tool is running, called by the second request of a turn
C10_ToolOutstanding ==
  /\ variant = "toolerr" /\ pc = "tool" /\ outstanding.tool = 1
  /\ genCalls = 2 /\ callCount = 2

\* positions of a generation turn
TurnPcs == {"generate", "dispatch", "tool"}

\* the last response of the turn asked for tools: the message list ends with
\* that assistant message followed by one tool message for each call
\* dispatched so far, in the order and with the names of the requests, and the
\* calls not yet dispatched are the rest of the requests
AnsweredInOrder ==
  (pc \in TurnPcs /\ lastResp.kind = "generate" /\ lastResp.calls # <<>>)
    => LET k == Len(lastResp.calls)
           d == k - Len(pending)
           base == Len(messages) - d - 1
       IN /\ d \in 0..k
          /\ base >= 2
          /\ messages[base + 1].role = "assistant"
          /\ messages[base + 1].content = lastResp.content
          /\ messages[base + 1].calls = lastResp.calls
          /\ \A i \in 1..d :
               /\ messages[base + 1 + i].role = "tool"
               /\ messages[base + 1 + i].name = lastResp.calls[i]
          /\ pending = SubSeq(lastResp.calls, d + 1, k)
          /\ (pc = "generate" => d = k)
          /\ (pc = "tool" => d < k)

\* C11: for a response with k >= 1 tool-call requests every request is
\* dispatched exactly once, in request order, and the message list of the next
\* backend call is the previous list extended by the assistant message and
\* exactly k tool messages, one per request, in order, each with the name of
\* its request.
C11_ToolCallsAnsweredInOrder ==
  [][ (variant # "basic" /\ pc \in TurnPcs /\ pc' \in TurnPcs
         /\ iters' = iters)
        => /\ IsPrefix(messages, messages')
           /\ Len(messages') <= Len(messages) + 1
           /\ (pc' = "generate" /\ pc # "generate" => pending' = <<>>)
           /\ AnsweredInOrder' ]_vars

\* the backend is asked again after a response with two requests, both
\* answered
C11_TwoCallsAnswered ==
  /\ variant \in {"toolerr", "router"} /\ pc = "generate"
  /\ lastResp.calls = <<"unknown_tool", "read_file">>
  /\ Len(messages) = 5
  /\ messages[4].name = "unknown_tool" /\ messages[5].name = "read_file"

\* C12: in the loop with the DONE sentinel a response without tool calls ends
\* the generation turn, whether or not its content holds the sentinel: the
\* loop does not wait for another generation response after it.
C12_NoCallsEndsTurn ==
  (variant = "done" /\ lastResp.kind = "generate" /\ lastResp.calls = <<>>
     /\ exitCause = "none")
    => pc # "generate"

\* the backend is asked again after an answer without tool calls
C12_AskedAgain ==
  /\ variant = "done" /\ pc = "generate" /\ rounds = 1 /\ genCalls = 2
  /\ lastResp = Response("generate", <<"thinking">>, <<>>)
  /\ messages[Len(messages)] = Msg("assistant", <<"thinking">>, "", <<>>)

\* C13: a call of a tool that is neither built in nor advertised by a
\* provider yields 'Tool not found', which is appended as the tool message of
\* the call and collected as an error; the loop goes on, and when the turn
\* ends the iteration is a failure with the text in errorLog, nothing is
\* appended to progressLog and the next iteration starts.
C13_ToolNotFoundIsRecoverable ==
  [][ /\ (/\ variant = "toolerr" /\ pc = "dispatch"
          /\ Head(pending) \notin NATIVE_TOOL_NAMES(variant)
          /\ FindClient(Head(pending)) = 0)
        => /\ messages' =
                Append(messages,
                       [role |-> "tool", content |-> <<"Tool not found">>,
                        name |-> Head(pending), calls |-> <<>>])
           /\ toolErrors' = Append(toolErrors, <<"Tool not found">>)
           /\ pc' \in {"dispatch", "generate"}
           /\ exitCode' = -1
      /\ (/\ variant = "toolerr" /\ pc = "generate"
          /\ lastResp'.kind = "generate" /\ lastResp'.calls = <<>>
          /\ \E i \in 1..Len(toolErrors) : toolErrors[i] = <<"Tool not found">>)
        => /\ outcome' = "failure"
           /\ Includes(errorLog', "Tool not found")
           /\ progressLog' = progressLog
           /\ pc' = "summarize"
           /\ exitCode' = -1 ]_vars

\* the iteration after a call of an unknown tool starts with the text in
\* errorLog
C13_NextIterationAfterToolNotFound ==
  /\ variant = "toolerr" /\ pc = "summarize" /\ iters = 2
  /\ outcome = "failure" /\ errorLog = <<"Tool not found">>
  /\ progressLog = <<>>

\* C14: a failing tool invocation (a built-in tool without arguments, a
\* rejected callTool) stays inside the loop: the step that handles a tool call
\* leads to the next call or to the next backend request of the turn.
C14_ToolFailureStaysInLoop ==
  [][ (variant = "toolerr" /\ pc \in {"dispatch", "tool"})
        => pc' \in TurnPcs ]_vars

\* the process ended while the provider's tool was being awaited
C14_ExitOnRejectedCall ==
  /\ variant = "toolerr" /\ pc = "exited" /\ exitCode = 1
  /\ exitCause = "throw" /\ genCalls = 1
  /\ lastResp.kind = "generate" /\ lastResp.calls = <<"provider_tool">>

\* C15: a run_terminal_command call whose command exits non-zero without
\* output yields a failure-shaped result: it is collected among the errors of
\* the turn (which classify the iteration as failed and set errorLog).
C15_SilentCommandFailureIsError ==
  [][ (/\ variant = "toolerr" /\ pc = "dispatch"
       /\ Head(pending) = "run_terminal_command"
       /\ pending' # pending /\ pc' \in TurnPcs)
        => /\ Len(toolErrors') = Len(toolErrors) + 1
           /\ IsToolError(toolErrors'[Len(toolErrors')]) ]_vars

\* the iteration whose only tool call was the failing command is a success
C15_SilentFailureCountsAsSuccess ==
  /\ variant = "toolerr" /\ pc = "check" /\ outcome = "success"
  /\ errorLog = <<>>
  /\ Includes(progressLog, "run_terminal_command")
  /\ Includes(progressLog, "Command executed (no output).")
  /\ ~Includes(progressLog, "read_file")

\* C16: in the generation that executes segments behind a router, the first
\* generation prompt of an iteration that follows a failed execution holds
\* the fix instruction and the output of the failure, and the one that
\* follows a successful execution holds the plain instruction and no fix
\* instruction.
C16_FixInstructionAfterFailure ==
  (variant = "router" /\ pc = "generate" /\ genCalls = 1 /\ iters > 1)
    => /\ lastExec = "fail"
         => /\ Includes(lastReq.prompt, "FIX ERROR: ")
            /\ IsSuffix(<<"FIX ERROR: ">> \o errorLog, lastReq.prompt)
       /\ lastExec = "ok"
         => /\ ~Includes(lastReq.prompt, "FIX ERROR: ")
            /\ Includes(lastReq.prompt, "Generate next Node.js segment.")

\* the prompt after a failure without output asks for the next segment
C16_PlainPromptAfterFailure ==
  /\ variant = "router" /\ pc = "generate" /\ genCalls = 1 /\ iters = 2
  /\ lastExec = "fail" /\ outcome = "failure"
  /\ Includes(lastReq.prompt, "Generate next Node.js segment.")

\* C17: a tool result without output (the empty string) is classified as a
\* failure like a result that begins with the error marker: it is collected
\* among the errors of the turn.
C17_EmptyResultIsError ==
  [][ (/\ variant = "toolerr" /\ pc \in {"dispatch", "tool"}
       /\ pc' \in TurnPcs
       /\ iterationLog' =
            iterationLog \o <<"\nTool result for ", Head(pending), ": ">>)
        => Len(toolErrors') = Len(toolErrors) + 1 ]_vars

\* the provider returned no content, and the iteration is a success with a
\* completion check
C17_EmptyResultCountsAsSuccess ==
  /\ variant = "toolerr" /\ pc = "check" /\ outcome = "success"
  /\ errorLog = <<>>
  /\ IsSuffix(<<"\nTool result for ", "provider_tool", ": ",
                "\nAssistant: ", "code">>, progressLog)

\* C18: a generation response that holds the completion sentinel in its
\* content and also carries tool-call requests ends the turn and the task:
\* none of its tool calls is dispatched.
C18_SentinelSuppressesToolCalls ==
  (variant = "router" /\ lastResp.kind = "generate"
     /\ Includes(lastResp.content, "PROJECT_DONE") /\ lastResp.calls # <<>>)
    => (pc \notin TurnPcs /\ callCount = 0)

\* a call of such a response was dispatched and answered
C18_CallDispatchedDespiteSentinel ==
  /\ variant = "router" /\ pc = "generate" /\ genCalls = 2
  /\ lastResp = Response("generate", <<"PROJECT_DONE">>, <<"read_file">>)
  /\ messages[Len(messages)].role = "tool"

\* C19: a router answer that is not a well-formed CHAT (empty, unrelated,
\* 'action' in lower case) is treated as ACTION: the loop is entered and no
\* chat reply is requested.
C19_MalformedRouteIsAction ==
  (variant \in {"router", "done"} /\ lastResp.kind = "route"
     /\ Trim(lastResp.content) # <<"CHAT">>)
    => pc # "chat"

\* the chat reply was requested on the answer 'action'
C19_LowerCaseActionIsChat ==
  /\ variant = "router" /\ pc = "chat"
  /\ lastResp = Response("route", <<"action">>, <<>>)
  /\ lastReq.kind = "chat"

\* what handling a chat leaves alone
ChatFrame ==
  <<progressLog, projectStateSummary, errorLog, iters, sumCalls, genCalls,
    callCount, messages, checkMessages, pending, lastExec, outcome>>

\* C20: a task routed as CHAT has no side effect: one further backend call is
\* made, nothing is dispatched, executed, summarized or checked, progressLog
\* and projectStateSummary stay as they were; when the reply arrives the
\* session ends in single-shot mode and the prompt returns in interactive
\* mode.
C20_ChatHasNoSideEffects ==
  [][ (HasRouter(variant) /\ (pc' = "chat" \/ pc = "chat"))
        => /\ ChatFrame' = ChatFrame
           /\ (pc # "chat"
                 => /\ pc = "route"
                    /\ lastReq'.kind = "chat"
                    /\ outstanding' = [Idle EXCEPT !.backend = 1])
           /\ (pc = "chat" /\ lastResp'.kind = "chat"
                 => /\ outstanding' = Idle
                    /\ pc' = IF isReplMode THEN "prompt" ELSE "closing") ]_vars

\* the prompt is back after a chat reply, with nothing done
C20_PromptAfterChat ==
  /\ variant = "router" /\ isReplMode /\ pc = "prompt"
  /\ lastResp.kind = "chat" /\ tasks = 1
  /\ iters = 0 /\ progressLog = <<>>
  /\ projectStateSummary = <<"No active task.">>

\* the pcs at which main awaits the backend
BackendPcs == {"route", "chat", "summarize", "generate", "check"}

\* the step in which the awaited backend call rejects
BackendThrew ==
  /\ pc \in BackendPcs
  /\ outstanding.backend = 1 /\ outstanding'.backend = 0
  /\ lastResp' = lastResp
  /\ exitCause' = "throw"

\* C21: in single-shot mode of the router generation, when the router said
\* ACTION, the first generation turn ended without a tool call, the segment ran
\* without error and the completion check said yes, the run was route,
\* summarize, generate, execute, check: one outer iteration with one
\* summarizer and one generation request, progressLog holds exactly one entry,
\* errorLog is empty, the loop was left by the check and the process shuts
\* down with exit code 0.
C21_HappyPathIsOneIteration ==
  ( /\ variant = "router" /\ ~isReplMode
    /\ iters = 1 /\ callCount = 0
    /\ lastExec = "ok"
    /\ lastResp.kind = "check"
    /\ Includes(ToLowerCase(lastResp.content), "yes") )
  => /\ pc \in {"closing", "exited"}
     /\ exitCause = "check"
     /\ outcome = "success"
     /\ sumCalls = 1 /\ genCalls = 1
     /\ OneEntryAppended(<<>>, progressLog)
     /\ errorLog = <<>>
     /\ outstanding = Idle
     /\ (pc = "exited" => exitCode = 0)

\* the single-shot run of the router generation ended after one iteration
C21_ExitedAfterOneIteration ==
  /\ variant = "router" /\ ~isReplMode /\ pc = "exited" /\ exitCode = 0
  /\ iters = 1 /\ callCount = 0 /\ lastExec = "ok" /\ exitCause = "check"
  /\ lastResp.kind = "check"

\* C22: there is no retry counter and no give-up state: in index.js and in
\* the router generation every execution classified as a failure is followed
\* by the head of another outer iteration (the summarizer request, or in
\* index.js the generation request); the task loop does not end on a failure.
C22_FailureIsAlwaysRetried ==
  [][ ( /\ variant \in {"basic", "router"}
        /\ pc = "execute" /\ pc' # "execute"
        /\ lastExec' = "fail" )
      => /\ AtLoopTop'
         /\ iters' = iters + 1
         /\ exitCode' = -1 ]_vars

\* a failed execution ended the process of the router generation
C22_ExitOnFailedSpawn ==
  /\ variant = "router" /\ pc = "exited" /\ exitCode = 1
  /\ lastExec = "fail" /\ outcome = "failure" /\ errorLog = Null

\* C23: in single-shot mode of the generation that wraps task processing in
\* try/catch, a rejected backend call ends the process with a non-zero exit
\* code; the task is not taken up again.
C23_SingleShotThrowExitsNonZero ==
  [][ (variant = "done" /\ ~isReplMode /\ BackendThrew)
      => (pc' = "exited" /\ exitCode' > 0) ]_vars

\* the single-shot task is routed again after a rejected backend call
C23_TaskStartedAgain ==
  /\ variant = "done" /\ ~isReplMode
  /\ exitCause = "throw" /\ pc = "route" /\ exitCode = -1

\* C24: in interactive mode of the router generation, a rejected backend call
\* (routing, chat, summarizing, generating or checking) abandons the task and
\* returns to the prompt; the process does not end.
C24_InteractiveThrowReturnsToPrompt ==
  [][ (variant = "router" /\ isReplMode /\ BackendThrew)
      => (pc' = "prompt" /\ exitCode' = -1) ]_vars

\* the interactive session of the router generation ended on a rejected
\* backend call
C24_SessionEndedByThrow ==
  /\ variant = "router" /\ isReplMode
  /\ exitCause = "throw" /\ pc = "exited" /\ exitCode = 1
  /\ outstanding = Idle

\* C27: in interactive mode, when work on a newly read task begins (the router
\* said ACTION and the first summarizer request of the task is issued),
\* progressLog is empty, so the request carries no entry of an earlier task.
C27_NewTaskStartsWithEmptyLog ==
  [][ ( /\ variant = "router" /\ isReplMode
        /\ pc = "route" /\ pc' = "summarize" )
      => (progressLog' = <<>> /\ lastReq'.hist = <<>>) ]_vars

\* the summarizer request of the second task carries the entry of the first
C27_EarlierEntryInSummarizerRequest ==
  /\ variant = "router" /\ isReplMode /\ tasks = 2
  /\ pc = "summarize" /\ sumCalls = 1 /\ outcome = "none"
  /\ lastReq.kind = "summarize" /\ lastReq.hist # <<>>
  /\ progressLog # <<>>

\* C25: when the process of the router or of the tool-calling generation has
\* ended, whichever way the loop was left (task completed, exit typed, an
\* exception thrown in the loop), no connection recorded by setupMCP is still
\* open: each one was closed before.
C25_ClientsClosedAtExit ==
  (variant \in {"router", "toolerr"} /\ pc = "exited") => openClients = {}

\* the process ended on an exception with a connection that was never closed
C25_ExitedWithOpenConnection ==
  /\ variant = "router" /\ pc = "exited" /\ exitCode = 1
  /\ exitCause = "throw" /\ openClients # {}

\* C28: outside a call of executeSegment the temporary file does not exist:
\* every way the call ends (success, non-zero status, timeout, failed spawn,
\* exception) has removed it.
C28_TempFileRemovedAfterCall ==
  (variant \in {"basic", "router"} /\ pc # "execute") => ~tempFile

\* executeSegment was left by an exception and the file is still there
C28_TempFileLeftBehind ==
  /\ variant = "router" /\ pc = "exited" /\ exitCause = "throw"
  /\ tempFile /\ outstanding.child = 0 /\ genCalls = 1

\* C29: in index.js the call of executeSegment never stays blocked on a child
\* that does not exit: the execution returns its verdict and the iteration
\* goes on to the classification.
C29_ExecutionAlwaysReturns ==
  ~(variant = "basic" /\ pc = "execute" /\ hung)

\* main of index.js is blocked in spawnSync for good
C29_BlockedInSpawnSync ==
  /\ variant = "basic" /\ pc = "execute" /\ hung
  /\ outstanding.child = 1 /\ tempFile /\ ~ENABLED Next

\* the providers of a list whose startup went through / failed, in order
Succeeded(servers) == SelectSeq(servers, LAMBDA srv : srv.connect /\ srv.list)
Failed(servers) == SelectSeq(servers, LAMBDA srv : ~(srv.connect /\ srv.list))

RECURSIVE ListedTools(_)
ListedTools(servers) ==
  IF servers = <<>> THEN <<>>
  ELSE Head(servers).toolNames \o ListedTools(Tail(servers))

\* C26: once setupMCP has returned, every provider whose connect or listTools
\* failed was logged and skipped and the others were still tried: the
\* catalogue is the built-in tools followed by the tools of exactly the
\* providers that succeeded, in their configured order, one client is
\* recorded for each of those, and main has gone on to the prompt of its
\* loop.
C26_FailedProvidersAreSkipped ==
  pc # "setup" =>
    LET ok == Succeeded(mcpServers)
        bad == Failed(mcpServers)
    IN /\ mcp.tools = nativeToolDefinitions \o ListedTools(ok)
       /\ mcp.clients = [i \in 1..Len(ok) |->
                           [server |-> ok[i].path, toolNames |-> ok[i].toolNames]]
       /\ mcp.logged = [i \in 1..Len(bad) |-> bad[i].path]
       /\ (tasks = 0 => pc = "prompt" /\ exitCode = -1)

\* of two providers the first failed to connect and the second is in the
\* catalogue
C26_SecondProviderLoadedAfterFailure ==
  /\ pc = "prompt" /\ Len(mcpServers) = 2
  /\ ~mcpServers[1].connect
  /\ mcpServers[2].connect /\ mcpServers[2].list
  /\ mcp.logged = <<"server1">>
  /\ mcp.tools = nativeToolDefinitions \o <<"tool2">>
  /\ Len(mcp.clients) = 1

\* C30: a call of search_and_replace whose search string does not occur in
\* the file returns an error text and leaves the file as it was, without a
\* write; the file is written only when the search string occurs in it.
C30_AbsentSearchLeavesFile ==
  (toolCall.name = "search_and_replace" /\ toolCall.before # Null) =>
    /\ ~IncludesText(toolCall.before, toolCall.search)
         => /\ toolCall.result # <<>>
            /\ Head(toolCall.result) = "Error: String \""
            /\ file = toolCall.before
            /\ ~toolCall.wrote
    /\ toolCall.wrote => IncludesText(toolCall.before, toolCall.search)
    /\ file # toolCall.before => toolCall.wrote

\* the search string was absent from a file that is not empty
C30_AbsentSearchRejected ==
  /\ toolCall.name = "search_and_replace"
  /\ toolCall.before = <<"a", "a">> /\ toolCall.search = <<"b">>
  /\ toolCall.result = <<"Error: String \"", "b", "\" not found.">>
  /\ file = <<"a", "a">> /\ ~toolCall.wrote

\* how many times w occurs in s
Occurrences(s, w) ==
  Cardinality({ i \in 0..(Len(s) - Len(w)) : SubSeq(s, i + 1, i + Len(w)) = w })

\* the last call was search_and_replace(search, replace) on a file holding
\* search exactly once, and this step is search_and_replace(replace, search)
SwappedCallFollows ==
  /\ toolCall.name = "search_and_replace"
  /\ toolCall.before # Null
  /\ Occurrences(toolCall.before, toolCall.search) = 1
  /\ toolCall'.name = "search_and_replace"
  /\ toolCall'.before = file
  /\ toolCall'.search = toolCall.replace
  /\ toolCall'.replace = toolCall.search

\* C31 (as stated): when search occurs exactly once in the file,
\* search_and_replace(search, replace) followed by
\* search_and_replace(replace, search) leaves the file with its original
\* content.
C31_SwapRestoresFile ==
  [][ SwappedCallFollows => file' = toolCall.before ]_vars

\* C31 (amended): the same, provided replace is not empty and occurs exactly
\* once in the file after the first call (that is, only where it was put).
C31_SwapRestoresFileIfReplaceUnique ==
  [][ ( /\ SwappedCallFollows
        /\ toolCall.replace # <<>>
        /\ Occurrences(file, toolCall.replace) = 1 )
      => file' = toolCall.before ]_vars

\* "a" became "b" and the swapped call made it "a" again
C31_RoundTripRestored ==
  /\ toolCall.name = "search_and_replace"
  /\ toolCall.origin = <<"a">> /\ toolCall.before = <<"b">>
  /\ toolCall.search = <<"b">> /\ toolCall.replace = <<"a">>
  /\ toolCall.wrote /\ file = <<"a">>

\* C32: a write_file call with append set keeps what the file held (nothing,
\* if there was no file) and adds the text at its end; two such calls with
\* the text t on an absent or empty file leave t followed by t.
C32_AppendKeepsContent ==
  (toolCall.name = "write_file" /\ toolCall.append) =>
    file = (IF toolCall.before = Null THEN <<>> ELSE toolCall.before)
             \o toolCall.text

\* the second of two write_file calls with text "a" and append set, on a file
\* that was empty, left "a"
C32_SecondAppendOverwrote ==
  /\ toolCall.name = "write_file" /\ toolCall.append
  /\ toolCall.origin = <<>> /\ toolCall.before = <<"a">>
  /\ toolCall.text = <<"a">> /\ file = <<"a">>

\* the clients that advertised the name of the dispatched call
Advertisers ==
  { i \in 1..Len(mcp.clients) :
      \E k \in 1..Len(mcp.clients[i].toolNames) :
        mcp.clients[i].toolNames[k] = toolCall.name }

\* C34: a dispatched call goes to at most one handler: to the built-in handler
\* when its name is a built-in name, whether or not a connected provider
\* advertises the same name; otherwise to the provider that advertised the
\* name and was connected first; to nobody when no one advertised it.
C34_DispatchIsDeterministicByName ==
  (toolCall.name # "" /\ pc # "setup") =>
    /\ Cardinality(toolCall.handlers) <= 1
    /\ IF \E k \in 1..Len(nativeToolDefinitions) :
            nativeToolDefinitions[k] = toolCall.name
       THEN toolCall.handlers = {"native"}
       ELSE IF Advertisers = {}
       THEN toolCall.handlers = {}
       ELSE \E i \in Advertisers :
              /\ toolCall.handlers = { mcp.clients[i].server }
              /\ \A j \in Advertisers : i <= j

\* two providers advertise read_file and shared_tool: the call of read_file
\* went to the built-in handler
C34_BuiltInWinsOverProvider ==
  /\ toolCall.name = "read_file" /\ Len(mcp.clients) = 2
  /\ Advertisers = {1, 2}
  /\ toolCall.handlers = {"native"}

\* C35: after setupMCP every provider whose connect succeeded is one of the
\* recorded clients, and when the session has ended through shutdownMCP no
\* connection is open.
C35_ConnectedProvidersAreRecorded ==
  (variant = "router" /\ pc # "setup") =>
    /\ mcp.connected \subseteq
         { mcp.clients[i].server : i \in 1..Len(mcp.clients) }
    /\ (pc = "exited" /\ exitCause # "throw") => openClients = {}

\* the session was closed by exit, and the provider whose listTools failed
\* after it had connected is still connected
C35_UnrecordedConnectionLeftOpen ==
  /\ variant = "router" /\ pc = "exited" /\ exitCode = 0
  /\ Len(mcpServers) = 1
  /\ mcpServers[1].connect /\ ~mcpServers[1].list
  /\ mcp.clients = <<>> /\ mcp.logged = <<"server1">>
  /\ openClients = {"server1"}

\* executeSegment returned its verdict in this step
ExecutionReturned ==
  pc = "execute" /\ outstanding.child = 1 /\ outstanding'.child = 0
    /\ exitCause' # "throw"

\* in index.js the completion check is issued in the step in which a segment
\* ran without error, and only there, with the entry of that segment already
\* in progressLog and in the request; after a failed execution the next
\* request is the generation request, which carries errorLog
BasicCheckIffSuccess ==
  /\ (pc # "check" /\ pc' = "check")
       => /\ ExecutionReturned /\ lastExec' = "ok"
          /\ OneEntryAppended(progressLog, progressLog')
          /\ lastReq'.kind = "check" /\ lastReq'.hist = progressLog'
  /\ (ExecutionReturned /\ lastExec' = "ok") => pc' = "check"
  /\ (ExecutionReturned /\ lastExec' = "fail")
       => /\ pc' = "generate"
          /\ lastReq'.kind = "generate"
          /\ lastReq'.err = Str(errorLog')
          /\ progressLog' = progressLog

----------------------------------------------------------------------------
\* The first generation that dispatches tool calls, on its own.

CallLoopInit ==
  /\ ProgramInit
  /\ variant = "calls"
  /\ pc = "prompt"
  /\ mcpServers = ConfiguredServers
  /\ mcp = setupMCP(mcpServers)
  /\ openClients = mcp.connected
  /\ file = Null
  /\ toolCall = NoCall

\* the steps this generation can take: it never reaches a completion check
\* and has no executeSegment
CallLoopNext ==
  \/ TakeTask
  \/ ReadLine
  \/ RouteReturn
  \/ ChatReturn
  \/ SummaryReturn
  \/ GenerateReturn
  \/ DispatchNative
  \/ NativeThrows
  \/ DispatchProvider
  \/ DispatchUnhandled
  \/ ToolReturn
  \/ BackendThrows
  \/ ToolThrows
  \/ Shutdown

CallLoopSpec == CallLoopInit /\ [][CallLoopNext]_vars

\* the backend answered the generation request in this step with a final
\* content that does not hold the sentinel
TurnEndedWithoutSentinel ==
  /\ pc = "generate" /\ outstanding.backend = 1 /\ outstanding'.backend = 0
  /\ lastResp'.kind = "generate" /\ lastResp'.calls = <<>>
  /\ segment' = <<>> /\ messages' = <<>>
  /\ ~Includes(Trim(lastResp'.content), "PROJECT_DONE")
  /\ lastReq' = lastReq

\* C36: in the first generation that dispatches tool calls, a generation turn
\* that ends without the sentinel is classified as success or failure and the
\* loop goes on to the completion check or to the next iteration; the
\* process is not ended by an unhandled exception.
C36_TurnWithoutSentinelIsClassified ==
  [][ (variant = "calls" /\ TurnEndedWithoutSentinel)
        => /\ outcome' \in {"success", "failure"}
           /\ pc' \in {"check", "summarize"}
           /\ exitCause' # "throw" /\ exitCode' = exitCode ]_vars

\* C37: in the first tool-enabled loop every segment whose child exits with
\* status 0 is recorded as a success whatever the previous iteration's outcome
\* was: its entry is appended to progressLog, errorLog becomes empty and the
\* completion check is issued; the output of a successful execution is never
\* stored in errorLog.
C37_ExitZeroIsRecordedAsSuccess ==
  [][ (variant = "mcp" /\ ExecutionReturned /\ lastExec' = "ok")
        => /\ outcome' = "success"
           /\ OneEntryAppended(progressLog, progressLog')
           /\ errorLog' = <<>>
           /\ pc' = "check" /\ lastReq'.kind = "check" ]_vars

\* C38: in the loop that uses the DONE sentinel progressLog is never modified:
\* it is the empty text in every reachable state, so that every summarizer
\* prompt and every completion-check prompt carries an empty history, however
\* many tool calls succeeded.
C38_DoneLoopKeepsProgressLogEmpty ==
  variant = "done"
    => /\ progressLog = <<>>
       /\ lastReq.kind \in {"summarize", "check"} => lastReq.hist = <<>>
       /\ lastReq.kind = "summarize"
            => SubSeq(lastReq.prompt, 1, 2) = <<"History: ", "\nErrors: ">>
       /\ lastReq.kind = "check"
            => lastReq.prompt
                 = <<"Task: ">> \o currentTask \o <<"\nLog: ", "\nDone?">>

\* the backend is asked again after as many tool calls as the budget allows,
\* the last of which returned its result
C38_AskedAgainAfterToolCalls ==
  /\ variant = "done" /\ pc = "generate" /\ callCount = MaxCalls
  /\ sumReturned /\ lastReq.kind = "generate"
  /\ messages # <<>>
  /\ messages[Len(messages)].role = "tool"
  /\ messages[Len(messages)].content = <<"r">>

\* a tool call of the generation turn got its result in this step
ToolResultArrived ==
  pc \in {"dispatch", "tool"} /\ pending # <<>> /\ pending' = Tail(pending)
    /\ exitCause' # "throw"

\* that result, as the step wrote it at the end of iterationLog
ArrivedResult ==
  SubSeq(iterationLog', Len(iterationLog) + 4, Len(iterationLog'))

\* begins with 'Error', or is 'Tool error' or 'Tool not found'
ErrorShaped(r) ==
  \/ (r # <<>> /\ r[1] = "Error")
  \/ r \in { <<"Tool error">>, <<"Tool not found">> }

\* the backend answered the generation request with the final content
FinalContentArrived ==
  /\ pc = "generate" /\ outstanding.backend = 1 /\ exitCause' # "throw"
  /\ pc' \notin {"generate", "dispatch"}

\* C39: in the loop that collects tool errors an iteration is classified as
\* failed if and only if at least one tool result of its generation turn was
\* error-shaped, in whatever round; errorLog is then those results of this
\* iteration joined in dispatch order, progressLog is unchanged and no
\* completion check is issued.
C39_FailedIffSomeToolResultWasError ==
  [][ variant = "toolerr"
        => /\ (pc = "summarize" /\ pc' = "generate") => toolErrors' = <<>>
           /\ (pc = "generate" /\ pc' = "dispatch") => toolErrors' = toolErrors
           /\ ToolResultArrived
                => toolErrors' = IF ErrorShaped(ArrivedResult)
                                 THEN Append(toolErrors, ArrivedResult)
                                 ELSE toolErrors
           /\ FinalContentArrived
                => IF toolErrors # <<>>
                   THEN /\ outcome' = "failure"
                        /\ errorLog' = Join(toolErrors)
                        /\ progressLog' = progressLog
                        /\ pc' = "summarize" /\ lastReq'.kind = "summarize"
                   ELSE /\ outcome' = "success"
                        /\ pc' = "check" /\ lastReq'.kind = "check" ]_vars

\* an iteration with two tool calls, of which one failed, was classified as
\* failed
C39_FailedAfterOneOfTwoCalls ==
  /\ variant = "toolerr" /\ pc = "summarize" /\ iters = 2
  /\ outcome = "failure" /\ callCount = 2
  /\ errorLog = <<"Tool not found">>

====
